---- MODULE Spec2Model ----
(***************************************************************************)
(* Request dispatch and authentication layer of the TTS API server:        *)
(* startup (main), the per-request pipeline (handle_request) and the       *)
(* backend dispatcher (backend::handle_llama_request).                      *)
(*                                                                         *)
(* Header values and keys are sequences of one-character strings; a path   *)
(* is a sequence of "/" and segment names; a body is a sequence of text    *)
(* pieces.  An Option<T> is a sequence of length 0 (None) or 1 (Some(v)).  *)
(***************************************************************************)
EXTENDS Integers, Sequences, FiniteSets, TLC

VARIABLES
    pc,              \* where main() is: "start", "cli", "parsed", "ready",
                     \* "serving", or ended: "exited", "crashed"
    LLAMA_API_KEY,   \* the OnceCell<String>: None or Some(key)
    key_writes,      \* how many times the cell was written
    feature,         \* the backend compiled in: "piper" or "gpt_sovits"
    panic_strategy,  \* what the build does on a panic: "unwind" or "abort"
    conns,           \* connection slot -> "none", "open", "closed"
    cur              \* the call of handle_request whose outcome is not yet
                     \* acted on: None or Some([conn, req, result])

vars == <<pc, LLAMA_API_KEY, key_writes, feature, panic_strategy, conns, cur>>

\* ------------------------------------------------------------------ bounds
MaxConns == 2

\* ----------------------------------------------------------------- strings
None == <<>>

Some(v) == <<v>>

IsSome(o) == Len(o) = 1

SP == " "

SLASH == "/"

\* a byte that is valid UTF-8 text but not ASCII, and a byte that is not UTF-8
NonAscii == "e_acute"

BadByte == "xFF"

Digits == <<"0", "1", "2", "3", "4", "5", "6", "7", "8", "9">>

IsDigit(ch) == \E i \in 1..10 : Digits[i] = ch

DigitVal(ch) == (CHOOSE i \in 1..10 : Digits[i] = ch) - 1

Bearer == <<"B", "e", "a", "r", "e", "r">>

Basic == <<"B", "a", "s", "i", "c">>

abc123 == <<"a", "b", "c", "1", "2", "3">>

abc == <<"a", "b", "c">>

wrong == <<"w", "r", "o", "n", "g">>

\* ------------------------------------------- http::HeaderValue, str helpers
\* HeaderValue::to_str succeeds only on visible ASCII bytes.
to_str_ok(value) == \A i \in 1..Len(value) : value[i] \notin {NonAscii, BadByte}

IsUtf8(value) == \A i \in 1..Len(value) : value[i] # BadByte

RECURSIVE split(_)
\* str::split(" "): the fields between single spaces, empty fields kept.
split(s) ==
    IF \A i \in 1..Len(s) : s[i] # SP
    THEN <<s>>
    ELSE LET k == CHOOSE i \in 1..Len(s) :
                      s[i] = SP /\ \A j \in 1..(i - 1) : s[j] # SP
         IN  <<SubSeq(s, 1, k - 1)>> \o split(SubSeq(s, k + 1, Len(s)))

\* variant: .nth(0), the scheme taken for the token
api_key_of_nth0(auth_header) ==
    LET fields == split(auth_header)
    IN  IF Len(fields) >= 1 THEN fields[1] ELSE <<>>

\* .nth(1).unwrap_or_default()
api_key_of(auth_header) ==
    LET fields == split(auth_header)
    IN  IF Len(fields) >= 2 THEN fields[2] ELSE <<>>

starts_with(s, prefix) ==
    Len(s) >= Len(prefix) /\ SubSeq(s, 1, Len(prefix)) = prefix

RECURSIVE StripZeros(_)
StripZeros(s) ==
    IF Len(s) > 0 /\ s[1] = "0" THEN StripZeros(Tail(s)) ELSE s

U64Max == <<"1", "8", "4", "4", "6", "7", "4", "4", "0", "7",
            "3", "7", "0", "9", "5", "5", "1", "6", "1", "5">>

RECURSIVE DecLeq(_, _)
\* a <= b for digit strings of equal length
DecLeq(a, b) ==
    IF Len(a) = 0 THEN TRUE
    ELSE IF DigitVal(a[1]) < DigitVal(b[1]) THEN TRUE
    ELSE IF DigitVal(a[1]) > DigitVal(b[1]) THEN FALSE
    ELSE DecLeq(Tail(a), Tail(b))

\* str::parse::<u64>() is Ok: an optional '+', then one or more digits, and
\* the value fits 64 bits.
parse_u64_ok(s) ==
    LET body == IF Len(s) > 0 /\ s[1] = "+" THEN Tail(s) ELSE s
        sig  == StripZeros(body)
    IN  /\ Len(body) > 0
        /\ \A i \in 1..Len(body) : IsDigit(body[i])
        /\ \/ Len(sig) < Len(U64Max)
           \/ Len(sig) = Len(U64Max) /\ DecLeq(sig, U64Max)

\* ---------------------------------------------------------------- requests
\* A path is a sequence of "/" separators and segment names; a segment name
\* holds no "/".
P(segs) == [i \in 1..(2 * Len(segs)) |-> IF i % 2 = 1 THEN SLASH ELSE segs[i \div 2]]

Paths ==
    { P(<<"echo">>), P(<<"echo", "x">>), <<SLASH>> \o P(<<"echo">>),
      P(<<"v1">>), P(<<"v1", "audio", "speech">>),
      P(<<"v1", "files">>), P(<<"v1", "files", "abc">>),
      P(<<"v1", "filesx">>), P(<<"v1", "unknown">>),
      P(<<"foo">>), <<SLASH>> }

Methods == {"GET", "POST"}

AuthHeaders ==
    { None,
      Some(<<>>),
      Some(Bearer \o <<SP>> \o abc123),
      Some(Bearer \o <<SP>> \o wrong),
      Some(Bearer \o <<SP>> \o abc \o <<SP>> \o abc123),
      Some(Bearer \o <<SP, SP>> \o abc123),
      Some(Bearer \o <<SP>> \o abc \o <<NonAscii>> \o abc),
      Some(Bearer),
      Some(Basic \o <<SP>> \o abc123),
      Some(<<BadByte>>) }

ContentLengths ==
    { None,
      Some(<<"1", "2">>),
      Some(abc),
      Some(<<"1", "8", "4", "4", "6", "7", "4", "4", "0", "7",
             "3", "7", "0", "9", "5", "5", "1", "6", "1", "6">>) }

Requests ==
    [method : Methods, path : Paths, authorization : AuthHeaders,
     content_length : ContentLengths]

\* the status an engine-backed operation may answer with
EngineStatuses == {200, 400, 500}

\* what API_KEY may hold in the environment
EnvApiKeys == {None, Some(abc123), Some(abc), Some(abc \o <<NonAscii>> \o abc)}

Features == {"piper", "gpt_sovits"}

\* ---------------------------------------------------------------- responses
Resp(status, body) == [status |-> status, body |-> body]

\* error::unauthorized(msg)
unauthorized(msg) == Resp(401, <<"Unauthorized: ">> \o msg)

\* error::invalid_endpoint(msg)
invalid_endpoint(msg) == Resp(404, <<"Not Found: ">> \o msg)

\* piper::audio_speech_handler / gpt_sovits::audio_speech_handler
audio_speech_handler(req, status) == Resp(status, <<"speech">>)

\* piper::files_handler
files_handler(req, status) == Resp(status, <<"files">>)

\* The outcome of one call of handle_request: a response or a panic, and the
\* events of the call in program order.
Returned(response, trace) ==
    [kind |-> "response", response |-> response, trace |-> trace]

Panicked(trace) ==
    [kind |-> "panic", response |-> Resp(0, <<>>), trace |-> trace]

\* ------------------------------------------------------- backend dispatcher
handle_llama_request(req, status) ==
    LET path == req.path IN
    IF path = P(<<"v1", "audio", "speech">>)
    THEN [response |-> audio_speech_handler(req, status),
          trace |-> <<"synthesize_speech">>]
    ELSE IF feature = "piper" /\ path = P(<<"v1", "files">>)
    THEN [response |-> files_handler(req, status), trace |-> <<"serve_file">>]
    ELSE IF feature = "piper" /\ starts_with(path, P(<<"v1", "files">>) \o <<SLASH>>)
    THEN [response |-> files_handler(req, status), trace |-> <<"serve_file">>]
    ELSE [response |-> invalid_endpoint(path), trace |-> <<"invalid_endpoint">>]

\* ------------------------------------------------------------ handle_request
\* PathBuf::iter(): the root, then the segments that are neither empty nor "."
Components(path) == SelectSeq(path, LAMBDA a : a \notin {SLASH, "."})

root_path(req) ==
    LET rest == Components(req.path)
    IN  <<SLASH>> \o (IF Len(rest) > 0 THEN <<rest[1]>> ELSE <<>>)

\* variant: an unset key read as the empty string
key_rejected_unwrap_or_default(api_key) ==
    api_key # (IF IsSome(LLAMA_API_KEY) THEN LLAMA_API_KEY[1] ELSE <<>>)

\* lines 167-172: the token is rejected
key_rejected(api_key) ==
    IsSome(LLAMA_API_KEY) /\ api_key # LLAMA_API_KEY[1]

\* lines 154-174: the response the gate returns early, or None
auth_gate(req) ==
    IF ~IsSome(req.authorization) THEN [deny |-> None, trace |-> <<>>]
    ELSE LET auth_header == req.authorization[1] IN
         IF auth_header = <<>> THEN [deny |-> None, trace |-> <<>>]
         ELSE IF ~to_str_ok(auth_header)
         THEN [deny |-> Some(unauthorized(<<"Failed to get authorization header">>)),
               trace |-> <<>>]
         ELSE IF key_rejected(api_key_of(auth_header))
         THEN [deny |-> Some(unauthorized(<<"Invalid API key.">>)),
               trace |-> <<"info:api_key">>]
         ELSE [deny |-> None, trace |-> <<"info:api_key">>]

\* lines 176-193: TRUE when the block runs to its end, FALSE when an unwrap
\* panics
log_request_ok(req) ==
    \/ req.method # "POST"
    \/ ~IsSome(req.content_length)
    \/ /\ to_str_ok(req.content_length[1])
       /\ parse_u64_ok(req.content_length[1])

\* lines 195-199
route(req, status) ==
    LET root == root_path(req) IN
    IF root = P(<<"echo">>)
    THEN [response |-> Resp(200, <<"echo test">>), trace |-> <<"route:echo">>]
    ELSE IF root = P(<<"v1">>)
    THEN LET r == handle_llama_request(req, status)
         IN  [response |-> r.response, trace |-> <<"route:v1">> \o r.trace]
    ELSE [response |-> invalid_endpoint(<<"The requested service endpoint is not found.">>),
          trace |-> <<"route:other", "invalid_endpoint">>]

\* variant: only server errors (500 and more) logged at error severity
log_response_server_errors(response) ==
    IF response.status < 500 THEN <<"info:response">> ELSE <<"error:response">>

\* lines 201-228
log_response(response) ==
    IF response.status < 400 THEN <<"info:response">> ELSE <<"error:response">>

handle_request(req, status) ==
    LET gate == auth_gate(req) IN
    IF IsSome(gate.deny) THEN Returned(gate.deny[1], gate.trace)
    ELSE IF ~log_request_ok(req) THEN Panicked(gate.trace \o <<"panic">>)
    ELSE LET r == route(req, status)
         IN  Returned(r.response,
                      gate.trace \o <<"info:request">> \o r.trace
                          \o log_response(r.response))

\* ---------------------------------------------------------------------- main
ConnIds == 1..MaxConns

Init ==
    /\ pc = "start"
    /\ LLAMA_API_KEY = None
    /\ key_writes = 0
    /\ feature \in Features
    /\ panic_strategy \in {"unwind", "abort"}
    /\ conns = [c \in ConnIds |-> "none"]
    /\ cur = None

\* lines 76-85: OnceCell::set fails on a cell that is already set
ReadApiKey ==
    /\ pc = "start"
    /\ \E env \in EnvApiKeys :
          IF ~IsSome(env)
          THEN pc' = "cli" /\ UNCHANGED <<LLAMA_API_KEY, key_writes>>
          ELSE IF IsSome(LLAMA_API_KEY)
          THEN pc' = "exited" /\ UNCHANGED <<LLAMA_API_KEY, key_writes>>
          ELSE /\ LLAMA_API_KEY' = env
               /\ key_writes' = key_writes + 1
               /\ pc' = "cli"
    /\ UNCHANGED <<feature, panic_strategy, conns, cur>>

\* line 88: Cli::parse() ends the process on bad arguments
ParseCli ==
    /\ pc = "cli"
    /\ \E ok \in BOOLEAN : pc' = IF ok THEN "parsed" ELSE "exited"
    /\ UNCHANGED <<LLAMA_API_KEY, key_writes, feature, panic_strategy, conns, cur>>

\* lines 93-113: only the piper build initialises a context, which may fail
InitContext ==
    /\ pc = "parsed"
    /\ \E ok \in BOOLEAN :
          pc' = IF feature = "piper" /\ ~ok THEN "exited" ELSE "ready"
    /\ UNCHANGED <<LLAMA_API_KEY, key_writes, feature, panic_strategy, conns, cur>>

\* lines 132-137: a bind failure panics in unwrap()
Bind ==
    /\ pc = "ready"
    /\ \E ok \in BOOLEAN : pc' = IF ok THEN "serving" ELSE "exited"
    /\ UNCHANGED <<LLAMA_API_KEY, key_writes, feature, panic_strategy, conns, cur>>

\* lines 121-130: a connection is accepted and its service made
Accept(c) ==
    /\ pc = "serving"
    /\ cur = None
    /\ conns[c] = "none"
    /\ conns' = [conns EXCEPT ![c] = "open"]
    /\ UNCHANGED <<pc, LLAMA_API_KEY, key_writes, feature, panic_strategy, cur>>

\* the peer closes its connection
Close(c) ==
    /\ pc = "serving"
    /\ cur = None
    /\ conns[c] = "open"
    /\ conns' = [conns EXCEPT ![c] = "closed"]
    /\ UNCHANGED <<pc, LLAMA_API_KEY, key_writes, feature, panic_strategy, cur>>

\* variant: a handler that initialises an unset key from the request's token
Handle_get_or_init(c) ==
    /\ pc = "serving"
    /\ cur = None
    /\ conns[c] = "open"
    /\ \E req \in Requests, status \in EngineStatuses :
          /\ cur' = Some([conn |-> c, req |-> req,
                          result |-> handle_request(req, status)])
          /\ LLAMA_API_KEY' =
                IF ~IsSome(LLAMA_API_KEY) /\ IsSome(req.authorization)
                   /\ to_str_ok(req.authorization[1])
                THEN Some(api_key_of(req.authorization[1]))
                ELSE LLAMA_API_KEY
    /\ UNCHANGED <<pc, key_writes, feature, panic_strategy, conns>>

\* line 129: the service calls handle_request on the next request of an open
\* connection
Handle(c) ==
    /\ pc = "serving"
    /\ cur = None
    /\ conns[c] = "open"
    /\ \E req \in Requests, status \in EngineStatuses :
          cur' = Some([conn |-> c, req |-> req,
                       result |-> handle_request(req, status)])
    /\ UNCHANGED <<pc, LLAMA_API_KEY, key_writes, feature, panic_strategy, conns>>

\* line 230: Ok(response) is written and the connection is kept
Write ==
    /\ IsSome(cur)
    /\ cur[1].result.kind = "response"
    /\ cur' = None
    /\ UNCHANGED <<pc, LLAMA_API_KEY, key_writes, feature, panic_strategy, conns>>

\* a panic unwinds the connection's task: the connection is dropped
PanicUnwind ==
    /\ IsSome(cur)
    /\ cur[1].result.kind = "panic"
    /\ panic_strategy = "unwind"
    /\ conns' = [conns EXCEPT ![cur[1].conn] = "closed"]
    /\ cur' = None
    /\ UNCHANGED <<pc, LLAMA_API_KEY, key_writes, feature, panic_strategy>>

\* a panic aborts the process
PanicAbort ==
    /\ IsSome(cur)
    /\ cur[1].result.kind = "panic"
    /\ panic_strategy = "abort"
    /\ pc' = "crashed"
    /\ cur' = None
    /\ UNCHANGED <<LLAMA_API_KEY, key_writes, feature, panic_strategy, conns>>

Next ==
    \/ ReadApiKey
    \/ ParseCli
    \/ InitContext
    \/ Bind
    \/ \E c \in ConnIds : Accept(c)
    \/ \E c \in ConnIds : Close(c)
    \/ \E c \in ConnIds : Handle(c)
    \/ Write
    \/ PanicUnwind
    \/ PanicAbort

Spec == Init /\ [][Next]_vars

\* ------------------------------------------------------- reading an outcome
InTrace(e, trace) == \E i \in 1..Len(trace) : trace[i] = e

Before(e, f, trace) ==
    \E i, j \in 1..Len(trace) : i < j /\ trace[i] = e /\ trace[j] = f

RouteEvents == {"route:echo", "route:v1", "route:other"}

\* the call got past the Auth Gate: it entered the request-logging block
PastGate(result) ==
    InTrace("info:request", result.trace) \/ InTrace("panic", result.trace)

RouterInvoked(result) == \E e \in RouteEvents : InTrace(e, result.trace)

IsUnauthorized(result) ==
    /\ result.kind = "response"
    /\ result.response.status = 401
    /\ ~RouterInvoked(result)

IsNotFound(result) ==
    result.kind = "response" /\ result.response.status = 404

Contains(body, part) ==
    \E i \in 1..(Len(body) + 1) :
        i + Len(part) - 1 <= Len(body) /\ SubSeq(body, i, i + Len(part) - 1) = part

\* the header is `Bearer X`
IsBearer(h) == starts_with(h, Bearer \o <<SP>>) /\ Len(h) > Len(Bearer) + 1

BearerX(h) == SubSeq(h, Len(Bearer) + 2, Len(h))

RECURSIVE UpToSpace(_)
\* the part of a string before its first space
UpToSpace(x) ==
    IF x = <<>> \/ x[1] = SP THEN <<>> ELSE <<x[1]>> \o UpToSpace(Tail(x))

\* ------------------------------------------------------------------ claims
\* C1, as stated: with a secret S configured, a request with header
\* `Bearer X` (X non-empty, valid UTF-8) gets past the Auth Gate iff X = S;
\* otherwise it is answered unauthorized and the router is not invoked.
C1_AllowedIffTokenEqualsSecret ==
    IsSome(cur) /\ IsSome(LLAMA_API_KEY) /\ IsSome(cur[1].req.authorization)
        /\ IsBearer(cur[1].req.authorization[1])
        /\ IsUtf8(cur[1].req.authorization[1])
    => LET x == BearerX(cur[1].req.authorization[1])
           r == cur[1].result
       IN  /\ PastGate(r) <=> x = LLAMA_API_KEY[1]
           /\ ~PastGate(r) => IsUnauthorized(r)

\* C1, amended: with a secret S configured, a request with header `Bearer X`
\* (X non-empty) gets past the Auth Gate iff the header value is visible
\* ASCII and the part of X before its first space equals S; otherwise it is
\* answered unauthorized and the router is not invoked.
C1_AllowedIffSecondFieldEqualsSecret ==
    IsSome(cur) /\ IsSome(LLAMA_API_KEY) /\ IsSome(cur[1].req.authorization)
        /\ IsBearer(cur[1].req.authorization[1])
    => LET h == cur[1].req.authorization[1]
           r == cur[1].result
       IN  /\ PastGate(r) <=> (to_str_ok(h) /\ UpToSpace(BearerX(h)) = LLAMA_API_KEY[1])
           /\ ~PastGate(r) => IsUnauthorized(r)

\* C1 witness: a token followed by a space and more text passes the gate of
\* a server whose secret is the token alone.
C1_Witness ==
    /\ IsSome(cur)
    /\ LLAMA_API_KEY = Some(abc)
    /\ cur[1].req.authorization = Some(Bearer \o <<SP>> \o abc \o <<SP>> \o abc123)
    /\ PastGate(cur[1].result)

\* C2, as stated: a request whose Authorization header is absent or empty
\* always reaches the Path Router and is never answered unauthorized,
\* whether or not a secret is configured.
C2_AbsentHeaderReachesRouter ==
    IsSome(cur) /\ cur[1].req.authorization \in {None, Some(<<>>)}
    => /\ RouterInvoked(cur[1].result)
       /\ ~IsUnauthorized(cur[1].result)

\* C3, as stated: with no secret set, every request gets past the Auth Gate
\* whatever its Authorization header holds, and none is answered
\* unauthorized.
C3_NoSecretAllowsAll ==
    IsSome(cur) /\ ~IsSome(LLAMA_API_KEY)
    => PastGate(cur[1].result) /\ ~IsUnauthorized(cur[1].result)

\* C3, amended: with no secret set, a request gets past the Auth Gate iff its
\* Authorization header is absent, empty or visible ASCII, whatever token it
\* carries; a header value that does not decode is answered unauthorized.
C3_NoSecretAllowsDecodable ==
    IsSome(cur) /\ ~IsSome(LLAMA_API_KEY)
    => LET a == cur[1].req.authorization
           r == cur[1].result
       IN  /\ PastGate(r) <=> (~IsSome(a) \/ to_str_ok(a[1]))
           /\ ~PastGate(r) => IsUnauthorized(r)

\* C3 witness: with no secret set, a request carrying a token passed the gate.
C3_Witness ==
    /\ IsSome(cur)
    /\ ~IsSome(LLAMA_API_KEY)
    /\ cur[1].req.authorization = Some(Bearer \o <<SP>> \o wrong)
    /\ PastGate(cur[1].result)

\* C4, as stated: every request whose path is /echo is answered with status
\* 200 and a non-empty body, whatever its method and headers and whichever
\* backend is built in, and the Backend Dispatcher is not invoked.
C4_EchoAlways200 ==
    IsSome(cur) /\ cur[1].req.path = P(<<"echo">>)
    => /\ cur[1].result.kind = "response"
       /\ cur[1].result.response.status = 200
       /\ cur[1].result.response.body # <<>>
       /\ ~InTrace("route:v1", cur[1].result.trace)

\* the first path segment: the path up to, not including, its second "/"
FirstSegment(path) ==
    IF \E i \in 2..Len(path) : path[i] = SLASH
    THEN SubSeq(path, 1, (CHOOSE i \in 2..Len(path) :
                             path[i] = SLASH /\ \A j \in 2..(i - 1) : path[j] # SLASH) - 1)
    ELSE path

IsFilesPath(path) ==
    path = P(<<"v1", "files">>) \/ starts_with(path, P(<<"v1", "files">>) \o <<SLASH>>)

IsSpeechPath(path) == path = P(<<"v1", "audio", "speech">>)

\* the request matches no route of the build
MatchesNoRoute(path) ==
    \/ FirstSegment(path) \notin {P(<<"echo">>), P(<<"v1">>)}
    \/ /\ FirstSegment(path) = P(<<"v1">>)
       /\ ~IsSpeechPath(path)
       /\ ~(feature = "piper" /\ IsFilesPath(path))

BackendInvoked(result) ==
    InTrace("synthesize_speech", result.trace) \/ InTrace("serve_file", result.trace)

\* C5, as stated: every request that got past the Auth Gate and matches no
\* route is answered not-found with a body that names the request's own
\* path, whether the router or the Backend Dispatcher decides it.
C5_NotFoundNamesPath ==
    IsSome(cur) /\ PastGate(cur[1].result) /\ MatchesNoRoute(cur[1].req.path)
    => /\ IsNotFound(cur[1].result)
       /\ Contains(cur[1].result.response.body, cur[1].req.path)

\* C6, as stated: of the requests that got past the Auth Gate, the piper
\* build delegates /v1/files and /v1/files/... to file serving and the
\* gpt_sovits build answers them not-found without a backend operation; both
\* builds delegate /v1/audio/speech to synthesis and answer every other /v1
\* path not-found.
C6_DispatchTable ==
    IsSome(cur) /\ PastGate(cur[1].result)
        /\ FirstSegment(cur[1].req.path) = P(<<"v1">>)
    => LET path == cur[1].req.path
           r == cur[1].result
       IN  IF IsSpeechPath(path) THEN InTrace("synthesize_speech", r.trace)
           ELSE IF IsFilesPath(path) /\ feature = "piper"
           THEN InTrace("serve_file", r.trace)
           ELSE IsNotFound(r) /\ ~BackendInvoked(r)

\* C8, as stated: every response that is written was preceded by an
\* inbound-request record and by an outbound-response record, the latter at
\* error severity when the status is 400 or more (unauthorized responses
\* included) and at informational severity otherwise.
C8_EveryResponseLogged ==
    IsSome(cur) /\ cur[1].result.kind = "response"
    => LET r == cur[1].result
       IN  /\ InTrace("info:request", r.trace)
           /\ r.trace[Len(r.trace)] =
                 IF r.response.status >= 400 THEN "error:response" ELSE "info:response"

\* C8, amended: every response to a request that got past the Auth Gate was
\* preceded by an inbound-request record logged before the router ran, and
\* by an outbound-response record logged last, at error severity when the
\* status is 400 or more and at informational severity otherwise; an
\* unauthorized response is returned by the Auth Gate with neither record.
C8_RoutedResponseLogged ==
    IsSome(cur) /\ cur[1].result.kind = "response"
    => LET r == cur[1].result
       IN  IF PastGate(r)
           THEN /\ \E e \in RouteEvents : Before("info:request", e, r.trace)
                /\ \A e \in RouteEvents :
                      InTrace(e, r.trace) => ~Before(e, "info:request", r.trace)
                /\ r.trace[Len(r.trace)] =
                      IF r.response.status >= 400 THEN "error:response"
                      ELSE "info:response"
                /\ \A i \in 1..(Len(r.trace) - 1) :
                      r.trace[i] \notin {"error:response", "info:response"}
           ELSE /\ IsUnauthorized(r)
                /\ ~InTrace("info:request", r.trace)
                /\ ~InTrace("error:response", r.trace)
                /\ ~InTrace("info:response", r.trace)

\* C8 witness: a not-found response of the router, logged at error severity
\* after the inbound record.
C8_Witness ==
    /\ IsSome(cur)
    /\ IsNotFound(cur[1].result)
    /\ Before("info:request", "route:other", cur[1].result.trace)
    /\ Before("route:other", "error:response", cur[1].result.trace)

\* C9: LLAMA_API_KEY is written at most once, while main() is still before
\* the command line is parsed, hence before the listener is bound and any
\* connection accepted; once serving, no step changes it.
C9_SecretWrittenOnceBeforeServing ==
    [][/\ LLAMA_API_KEY' # LLAMA_API_KEY
          => /\ pc = "start"
             /\ key_writes = 0
             /\ \A c \in ConnIds : conns[c] = "none"
       /\ key_writes' <= 1
       /\ pc \in {"serving", "crashed"} => LLAMA_API_KEY' = LLAMA_API_KEY]_vars

\* C9 witness: a server whose secret was set at startup has accepted a
\* connection and checked a request's token against the secret.
C9_Witness ==
    /\ pc = "serving"
    /\ key_writes = 1
    /\ LLAMA_API_KEY = Some(abc123)
    /\ IsSome(cur)
    /\ conns[cur[1].conn] = "open"
    /\ InTrace("info:api_key", cur[1].result.trace)

\* C10, as stated: handle_request yields a response for every request, no
\* request closes its connection and none ends the process.
C10_EveryRequestAnswered ==
    /\ IsSome(cur) => cur[1].result.kind = "response"
    /\ pc # "crashed"

====
